---- MODULE Spec2Model ----
(***************************************************************************)
(* Verification model of the video production pipeline:                    *)
(*   - TaskQueueService (in-memory task registry driven by setTimeout),    *)
(*   - ErrorHandler.retryOperation,                                        *)
(*   - VisualContentService.assignTimingToVisuals (timeline allocation),   *)
(*   - VideoProductionServiceImpl.createCompleteVideoPackage and           *)
(*     RealVideoCreator.createVideo (stage sequencing).                    *)
(*   - the routes POST /api/videos and POST /api/batch, which submit tasks, *)
(*   - TextToSpeechService.splitTextIntoChunks,                            *)
(*   - VideoEditingService.createVideo and prepareVisualContent,           *)
(*   - AIContentGenerationService.generateScript, TextToSpeechService      *)
(*     generateSpeech and generateSpeechForLongText.                       *)
(* Each part has its own specification; the variables of the other parts   *)
(* are held at their initial values.                                       *)
(***************************************************************************)
EXTENDS Integers, Sequences, FiniteSets, TLC

\* ------------------------------------------------------------------ bounds
\* number of addTask calls explored
MaxCalls == 3
\* number of distinct caller-supplied task ids
MaxIds == 1
\* number of tasks submitted through the routes
MaxSubmitted == 4

\* ------------------------------------------------------- program constants
\* simulateVideoProcessing: steps.length
NSteps == 6
\* config.queue.maxRetries default
QueueMaxRetries == 3
\* config.queue.concurrency default
QueueConcurrency == 3
\* the progress both routes put into the task they hand to addTask
RouteProgress == 0
\* POST /api/batch: more topics than this are rejected
MaxBatchTopics == 10
\* the routes' default for req.body.duration
DefaultDuration == 600

\* ------------------------------------------------------------------ state
VARIABLES
  \* TaskQueueService
  tasks,     \* TaskQueueService.tasks: task id -> reference to a task object (0: no entry)
  heap,      \* the task objects, in allocation order (one per addTask call)
  calls,     \* one record per addTask call: its timer and its processTask execution
  stepQ,     \* pending 2000 ms timers of simulateVideoProcessing, in creation order
  \* ErrorHandler.retryOperation
  rpc,        \* "idle", "invoke" (about to call operation()), "sleep", "returned", "thrown"
  maxRetries, \* the maxRetries argument
  delay,      \* the delay argument, in ms
  attempt,    \* the loop variable
  lastError,  \* the local lastError (Undefined until an attempt has failed)
  thrown,     \* the value retryOperation threw, once rpc = "thrown"
  outcomes,   \* what each invocation of operation() produced, in order
  sleeps,     \* the durations passed to sleep(), in order
  \* VisualContentService.assignTimingToVisuals
  tpc,           \* "idle", "loop", "done"
  visuals,       \* the visuals argument: the duration of each asset, in list order
  totalDuration, \* the totalDuration argument
  alloc,         \* the locals currentTime, visualIndex and timedVisuals
  \* VideoProductionServiceImpl.createCompleteVideoPackage, RealVideoCreator.createVideo
  pkg,       \* the run of createCompleteVideoPackage
  rvc,       \* the run of RealVideoCreator.createVideo
  \* routes
  req,       \* the requests POST /api/videos and POST /api/batch have received
  \* TextToSpeechService.splitTextIntoChunks
  cpc,          \* "idle", "loop" (in the for loop over the sentences), "done"
  text,         \* the text argument, a sequence of characters
  maxChunkSize, \* the maxChunkSize argument
  chunker,      \* the locals sentences (those still to visit), currentChunk and chunks
  \* VideoEditingService.createVideo
  edit,      \* the run of createVideo: its arguments, position and preparedVisuals
  \* AIContentGenerationService.generateScript
  gen,       \* the call of generateScript made last, with its outcome
  \* TextToSpeechService.generateSpeechForLongText
  speech,    \* the run of generateSpeechForLongText
  disk       \* the audio files that exist, each with the chunks its audio holds

qvars == <<tasks, heap, calls, stepQ>>
rvars == <<rpc, maxRetries, delay, attempt, lastError, thrown, outcomes, sleeps>>
tvars == <<tpc, visuals, totalDuration, alloc>>
pvars == <<pkg, rvc>>
svars == <<req>>
cvars == <<cpc, text, maxChunkSize, chunker>>
evars == <<edit>>
lvars == <<gen, speech, disk>>
vars == <<qvars, rvars, tvars, pvars, svars, cvars, evars, lvars>>

\* caller-supplied ids; 0 stands for "task.id is empty", which makes addTask draw a uuid
GivenIds == 1..MaxIds
NoId == 0
\* uuidv4() of the k-th addTask call: fresh, distinct from every supplied id
Uuid(k) == 100 + k
AllIds == GivenIds \cup {Uuid(k) : k \in 1..(MaxCalls + MaxSubmitted + 1)}

\* no log call of the execution has thrown
NoStep == -2

\* the log calls of a processTask execution: the six of simulateVideoProcessing, by
\* index (0-based as in the source), before them (index -1) the one that precedes
\* the write of 'processing', after them (index NSteps) the one that follows the
\* write of 'completed'
StepName(i) ==
  CASE i = -1 -> "begin"
    [] i = 0 -> "script"
    [] i = 1 -> "speech"
    [] i = 2 -> "visuals"
    [] i = 3 -> "video"
    [] i = 4 -> "thumbnail"
    [] i = 5 -> "upload"
    [] OTHER -> "completed"

\* ----------------------------------------------------------- timer queue
\* start timers that may expire in any order
CanStart_AnyOrder(k) ==
  /\ k \in 1..Len(calls)
  /\ calls[k].pc = "timer"

\* Timers of one duration expire in creation order.  All start timers last 1000 ms:
\* the start timer of call k runs once the start timers of all earlier calls have.
CanStart(k) ==
  /\ k \in 1..Len(calls)
  /\ calls[k].pc = "timer"
  /\ \A j \in 1..(k - 1) : calls[j].pc # "timer"

\* All step timers last 2000 ms: the oldest one runs first.  A start timer and a step
\* timer may run in either order (addTask is called at arbitrary times).
CanStep(k) ==
  /\ stepQ # <<>>
  /\ Head(stepQ) = k
  /\ calls[k].pc = "step"

\* ------------------------------------------------------------- operations
\* addTask with processTask called directly instead of through the 1000 ms timer
AddTaskBody_ProcessedAtOnce(given, progress) ==
  LET k == Len(calls) + 1
      taskId == IF given = NoId THEN Uuid(k) ELSE given
  IN /\ heap' = Append(heap, [id |-> taskId, status |-> "processing", error |-> "",
                              progress |-> progress])
     /\ tasks' = [tasks EXCEPT ![taskId] = k]
     /\ calls' = Append(calls, [id |-> taskId, pc |-> "step", task |-> k, i |-> 0,
                                attempts |-> 1, failedStep |-> NoStep])
     /\ stepQ' = Append(stepQ, k)

\* addTask(task): register { ...task, id: taskId, status: 'pending' } and schedule
\* processTask.  given is task.id, progress is task.progress.
AddTaskBody(given, progress) ==
  LET k == Len(calls) + 1
      taskId == IF given = NoId THEN Uuid(k) ELSE given
  IN /\ heap' = Append(heap, [id |-> taskId, status |-> "pending", error |-> "",
                              progress |-> progress])
     /\ tasks' = [tasks EXCEPT ![taskId] = k]
     /\ calls' = Append(calls, [id |-> taskId, pc |-> "timer", task |-> 0, i |-> 0,
                                attempts |-> 0, failedStep |-> NoStep])
     /\ UNCHANGED stepQ

AddTask ==
  /\ Len(calls) < MaxCalls
  /\ \E given \in GivenIds \cup {NoId} : AddTaskBody(given, RouteProgress)

\* processTask's first part writing 'active', the name of the statistics bucket,
\* instead of 'processing'
ProcessTaskBegin_StatusActive(k) ==
  LET c == calls[k]
      task == tasks[c.id]
  IN IF task = 0
       THEN /\ calls' = [calls EXCEPT ![k].pc = "notfound"]
            /\ UNCHANGED <<tasks, heap, stepQ>>
       ELSE /\ heap' = [heap EXCEPT ![task].status = "active"]
            /\ tasks' = [tasks EXCEPT ![c.id] = task]
            /\ calls' = [calls EXCEPT ![k] = [c EXCEPT !.pc = "step", !.task = task,
                                                       !.i = 0, !.attempts = 1]]
            /\ stepQ' = Append(stepQ, k)

\* processTask(taskId), from the timer callback up to the first await inside
\* simulateVideoProcessing.
ProcessTaskBegin(k) ==
  LET c == calls[k]
      task == tasks[c.id]
  IN IF task = 0
       THEN /\ calls' = [calls EXCEPT ![k].pc = "notfound"]
            /\ UNCHANGED <<tasks, heap, stepQ>>
       ELSE /\ heap' = [heap EXCEPT ![task].status = "processing"]
            /\ tasks' = [tasks EXCEPT ![c.id] = task]
            /\ calls' = [calls EXCEPT ![k] = [c EXCEPT !.pc = "step", !.task = task,
                                                       !.i = 0, !.attempts = 1]]
            /\ stepQ' = Append(stepQ, k)

ProcessTaskStart ==
  \E k \in 1..Len(calls) :
    /\ CanStart(k)
    /\ ProcessTaskBegin(k)

\* simulateVideoProcessing: the 2 s wait of step i is over and the loop goes on to
\* step i + 1.
SimulateNext(k) ==
  /\ calls' = [calls EXCEPT ![k].i = calls[k].i + 1]
  /\ stepQ' = Append(Tail(stepQ), k)
  /\ UNCHANGED <<tasks, heap>>

SimulateStep ==
  \E k \in 1..Len(calls) :
    /\ CanStep(k)
    /\ calls[k].i + 1 < NSteps
    /\ SimulateNext(k)

\* processTask after simulateVideoProcessing has returned: mark as completed.
ProcessTaskFinish(k) ==
  LET c == calls[k]
  IN /\ heap' = [heap EXCEPT ![c.task].status = "completed"]
     /\ tasks' = [tasks EXCEPT ![c.id] = c.task]
     /\ calls' = [calls EXCEPT ![k].pc = "completed"]
     /\ stepQ' = Tail(stepQ)

ProcessTaskComplete ==
  \E k \in 1..Len(calls) :
    /\ CanStep(k)
    /\ calls[k].i + 1 = NSteps
    /\ ProcessTaskFinish(k)

\* error.message of what a log call throws: empty (or missing), or not
Messages == {"", "step failed"}

\* the ways out of processTask's catch block
Handlers == {"log throws", "message throws", "returns"}

\* processTask from the log call `step` that throws to the end of the execution.
\* In the code as it is only a log call can throw inside the try block: the logger
\* serialises its context argument, which holds the id and the topic that addTask
\* stored as the caller gave them, and reads error.message.  Before the throw the try block has written
\* 'processing' (step 0, in the callback of the 1000 ms timer) or 'completed' (step
\* NSteps) or, in the callback at hand, nothing.  The catch block then calls
\* logger.error, reads the registry again and, on the object it finds there, writes
\* 'failed' and then error.message (message).  It has three ways out (handler):
\* logger.error throws, and nothing is written; logger.error returns, 'failed' is
\* written and the read of error.message throws (the thrown value is null or
\* undefined, or its message getter throws), so the error stays as it was; or the
\* block runs to its end.  In the first two processTask rejects and nobody handles
\* the rejection (in the server process the unhandledRejection handler then exits).
\* Without a registered object nothing is written and error.message is not read.
ProcessTaskCatch(k, step, message, handler) ==
  LET c == calls[k]
      task == IF c.pc = "timer" THEN tasks[c.id] ELSE c.task
      triedHeap == IF step = 0 THEN [heap EXCEPT ![task].status = "processing"]
                   ELSE IF step = NSteps THEN [heap EXCEPT ![task].status = "completed"]
                   ELSE heap
      triedTasks == IF step = NSteps THEN [tasks EXCEPT ![c.id] = task] ELSE tasks
      found == triedTasks[c.id]
      logged == handler # "log throws"
      copied == handler = "returns"
  IN /\ calls' = [calls EXCEPT ![k] = [c EXCEPT !.pc = IF copied \/ (logged /\ found = 0)
                                                         THEN "failed"
                                                         ELSE "rejected",
                                                !.attempts = 1,
                                                !.failedStep = step,
                                                !.task = task]]
     /\ stepQ' = IF c.pc = "step" THEN Tail(stepQ) ELSE stepQ
     /\ tasks' = triedTasks
     /\ heap' = IF logged /\ found # 0
                  THEN [triedHeap EXCEPT ![found].status = "failed",
                                         ![found].error = IF copied THEN message
                                                          ELSE @]
                  ELSE triedHeap

\* the callback of the 1000 ms timer when a log call in it throws: the one before
\* 'processing' is written or that of step 0.  With a handler that gets through the
\* task goes from 'pending' to 'failed' within the callback; no step timer is created.
ProcessTaskStartFail ==
  \E k \in 1..Len(calls), step \in {-1, 0}, message \in Messages, handler \in Handlers :
    /\ CanStart(k)
    /\ tasks[calls[k].id] # 0
    /\ ProcessTaskCatch(k, step, message, handler)

\* the callback of the 2000 ms timer of step i when the next log call throws: that
\* of step i + 1, or after the last step the one that follows 'completed'
ProcessTaskFail ==
  \E k \in 1..Len(calls), message \in Messages, handler \in Handlers :
    /\ CanStep(k)
    /\ ProcessTaskCatch(k, calls[k].i + 1, message, handler)

\* cleanup(): this.tasks.clear()
Cleanup ==
  /\ \E id \in AllIds : tasks[id] # 0
  /\ tasks' = [id \in AllIds |-> 0]
  /\ UNCHANGED <<heap, calls, stepQ>>

\* getTaskStatus(taskId): the status of the registered object, or "Task not found"
GetTaskStatus(id) == IF tasks[id] = 0 THEN "notfound" ELSE heap[tasks[id]].status

\* getQueueStats(): the registered tasks counted by status
GetQueueStats ==
  LET registered == {id \in AllIds : tasks[id] # 0}
      Count(status) == Cardinality({id \in registered : heap[tasks[id]].status = status})
  IN [waiting |-> Count("pending"), active |-> Count("processing"),
      completed |-> Count("completed"), failed |-> Count("failed")]

QInit ==
  /\ tasks = [id \in AllIds |-> 0]
  /\ heap = <<>>
  /\ calls = <<>>
  /\ stepQ = <<>>

\* ======================================================================
\* ErrorHandler.retryOperation
\* ======================================================================
\* largest maxRetries argument explored
MaxRetryArg == 3

\* default of the maxRetries parameter
DefaultMaxRetries == 3
\* default of the delay parameter
DefaultDelay == 1000
\* config.queue.retryDelay default
QueueRetryDelay == 5000

Undefined == [kind |-> "undefined", retryable |-> FALSE, n |-> 0]
Ok == [kind |-> "ok", retryable |-> FALSE, n |-> 0]

\* the values operation() can reject with at its n-th invocation: an AppError whose
\* retryable flag is set, an AppError whose flag is clear, or any other Error
Errors(n) ==
  { [kind |-> "AppError", retryable |-> TRUE, n |-> n],
    [kind |-> "AppError", retryable |-> FALSE, n |-> n],
    [kind |-> "Error", retryable |-> FALSE, n |-> n] }

\* error instanceof AppError && !error.retryable
IsFatal(e) == e.kind = "AppError" /\ ~e.retryable

RECURSIVE Pow2(_)
\* Math.pow(2, n) for n >= 0
Pow2(n) == IF n <= 0 THEN 1 ELSE 2 * Pow2(n - 1)

\* the catch block without the test of the error's retryable flag
AfterFailure_FlagIgnored(error, att, maxR) ==
  IF att = maxR THEN "break" ELSE "sleep"

\* the catch block without the break at the last attempt
AfterFailure_NoBreak(error, att, maxR) ==
  IF IsFatal(error) THEN "throw" ELSE "sleep"

\* the catch block of retryOperation: what follows a failed attempt
AfterFailure(error, att, maxR) ==
  IF IsFatal(error) THEN "throw"
  ELSE IF att = maxR THEN "break"
  ELSE "sleep"

\* retryOperation(operation, maxRetries, delay): entry, up to the first loop test
RetryCall ==
  /\ rpc = "idle"
  /\ \E m \in (-1)..MaxRetryArg, d \in {DefaultDelay, QueueRetryDelay} :
       /\ maxRetries' = m
       /\ delay' = d
       /\ attempt' = 1
       /\ IF 1 <= m
            THEN rpc' = "invoke" /\ thrown' = thrown
            ELSE rpc' = "thrown" /\ thrown' = lastError
  /\ UNCHANGED <<lastError, outcomes, sleeps>>

\* one pass of the loop body: await operation(), and the catch block when it rejects
RetryInvoke ==
  /\ rpc = "invoke"
  /\ \E out \in {Ok} \cup Errors(Len(outcomes) + 1) :
       /\ outcomes' = Append(outcomes, out)
       /\ IF out = Ok
            THEN /\ rpc' = "returned"
                 /\ UNCHANGED <<lastError, thrown>>
            ELSE /\ lastError' = out
                 /\ LET next == AfterFailure(out, attempt, maxRetries)
                    IN CASE next = "throw" -> rpc' = "thrown" /\ thrown' = out
                         [] next = "break" -> rpc' = "thrown" /\ thrown' = out
                         [] OTHER -> rpc' = "sleep" /\ thrown' = thrown
  /\ UNCHANGED <<maxRetries, delay, attempt, sleeps>>

\* await this.sleep(delay * 2^(attempt - 1)), then attempt++ and the loop test
RetrySleep ==
  /\ rpc = "sleep"
  /\ sleeps' = Append(sleeps, delay * Pow2(attempt - 1))
  /\ attempt' = attempt + 1
  /\ IF attempt + 1 <= maxRetries
       THEN rpc' = "invoke" /\ thrown' = thrown
       ELSE rpc' = "thrown" /\ thrown' = lastError
  /\ UNCHANGED <<maxRetries, delay, lastError, outcomes>>

RInit ==
  /\ rpc = "idle"
  /\ maxRetries = DefaultMaxRetries
  /\ delay = DefaultDelay
  /\ attempt = 0
  /\ lastError = Undefined
  /\ thrown = Undefined
  /\ outcomes = <<>>
  /\ sleeps = <<>>

\* ======================================================================
\* VisualContentService.assignTimingToVisuals
\* ======================================================================
\* longest asset list explored
MaxAssets == 3

\* findVisualContent: duration < 30 is rejected
MinDuration == 30
\* findVisualContent: duration > 1800 is rejected
MaxDuration == 1800
\* the loop guard visualIndex < visuals.length * 3
MaxCycles == 3

\* the duration the searches give to an image
ImageDuration == 5

\* asset durations: 5 for an image, 1..15 for a video clip; 0 is a degenerate asset
AssetDurations == {0, ImageDuration, 7, 15}

\* target durations: degenerate, below the accepted range, and within it
TargetDurations ==
  {0, 12, MinDuration, MinDuration + 3, 2 * MinDuration, 4 * MinDuration, MaxDuration}

RECURSIVE SeqsUpTo(_, _)
\* all sequences over S of length at most n
SeqsUpTo(S, n) ==
  IF n = 0 THEN {<<>>}
  ELSE LET shorter == SeqsUpTo(S, n - 1)
       IN shorter \cup {Append(q, x) : q \in {r \in shorter : Len(r) = n - 1}, x \in S}

AssetLists == SeqsUpTo(AssetDurations, MaxAssets)

\* a search result of ten images
TenImages == [i \in 1..10 |-> ImageDuration]

Min(a, b) == IF a <= b THEN a ELSE b

RECURSIVE SumDurations(_)
\* total duration of a list of slices
SumDurations(slices) ==
  IF slices = <<>> THEN 0
  ELSE slices[1].duration + SumDurations(Tail(slices))

RECURSIVE SumSeq(_)
\* total of a list of numbers
SumSeq(q) == IF q = <<>> THEN 0 ELSE q[1] + SumSeq(Tail(q))

\* the locals before the loop
AllocStart == [currentTime |-> 0, visualIndex |-> 0, timedVisuals |-> <<>>]

\* the while condition without the guard on visualIndex
LoopCond_NoGuard(vs, total, st) == st.currentTime < total

\* the while condition with a guard of two cycles instead of three
LoopCond_TwoCycles(vs, total, st) ==
  /\ st.currentTime < total
  /\ st.visualIndex < Len(vs) * 2

\* the while condition
LoopCond(vs, total, st) ==
  /\ st.currentTime < total
  /\ st.visualIndex < Len(vs) * MaxCycles

\* the loop body, with the startTime of the pushed slice left at the 0 the searches
\* put there
LoopBody_StartTimeNotSet(vs, total, st) ==
  LET idx == (st.visualIndex % Len(vs)) + 1
      visualDuration == Min(vs[idx], total - st.currentTime)
  IN IF visualDuration > 0
       THEN [currentTime |-> st.currentTime + visualDuration,
             visualIndex |-> st.visualIndex + 1,
             timedVisuals |-> Append(st.timedVisuals,
                                [asset |-> idx, startTime |-> 0,
                                 duration |-> visualDuration])]
       ELSE [st EXCEPT !.visualIndex = st.visualIndex + 1]

\* the loop body: one visit of visuals[visualIndex % visuals.length]
LoopBody(vs, total, st) ==
  LET idx == (st.visualIndex % Len(vs)) + 1
      remainingTime == total - st.currentTime
      visualDuration == Min(vs[idx], remainingTime)
  IN IF visualDuration > 0
       THEN [currentTime |-> st.currentTime + visualDuration,
             visualIndex |-> st.visualIndex + 1,
             timedVisuals |-> Append(st.timedVisuals,
                                [asset |-> idx, startTime |-> st.currentTime,
                                 duration |-> visualDuration])]
       ELSE [st EXCEPT !.visualIndex = st.visualIndex + 1]

RECURSIVE RunLoop(_, _, _)
\* the while loop, run to its end
RunLoop(vs, total, st) ==
  IF LoopCond(vs, total, st) THEN RunLoop(vs, total, LoopBody(vs, total, st)) ELSE st

\* assignTimingToVisuals(visuals, totalDuration) as a function of its arguments
AssignTimingToVisuals(vs, total) ==
  IF Len(vs) = 0 THEN <<>> ELSE RunLoop(vs, total, AllocStart).timedVisuals

\* the call: the early return for an empty list, or the locals set up for the loop
AssignCall ==
  /\ tpc = "idle"
  /\ \E vs \in AssetLists \cup {TenImages}, total \in TargetDurations :
       /\ visuals' = vs
       /\ totalDuration' = total
       /\ alloc' = AllocStart
       /\ tpc' = IF Len(vs) = 0 THEN "done" ELSE "loop"

\* one iteration of the while loop
AssignIterate ==
  /\ tpc = "loop"
  /\ LoopCond(visuals, totalDuration, alloc)
  /\ alloc' = LoopBody(visuals, totalDuration, alloc)
  /\ UNCHANGED <<tpc, visuals, totalDuration>>

\* the loop condition fails: return timedVisuals
AssignReturn ==
  /\ tpc = "loop"
  /\ ~LoopCond(visuals, totalDuration, alloc)
  /\ tpc' = "done"
  /\ UNCHANGED <<visuals, totalDuration, alloc>>

TInit ==
  /\ tpc = "idle"
  /\ visuals = <<>>
  /\ totalDuration = 0
  /\ alloc = AllocStart

\* ======================================================================
\* VideoProductionServiceImpl.createCompleteVideoPackage and
\* RealVideoCreator.createVideo
\* ======================================================================
\* the stages of createCompleteVideoPackage, in source order
PackageStages == <<"visuals", "video", "thumbnail">>
\* the stages of RealVideoCreator.createVideo, in source order
CreatorStages == <<"script", "speech", "visuals", "video", "thumbnail">>

\* durations given to createCompleteVideoPackage: two rejected ones, two accepted ones
PackageDurations == {12, MinDuration, 2 * MinDuration, MaxDuration + 1}

NoError == [class |-> "none", retryable |-> FALSE]
\* new ValidationError(message): retryable is false
ValidationError == [class |-> "ValidationError", retryable |-> FALSE]
\* new VideoProcessingError(message): retryable defaults to true
VideoProcessingError == [class |-> "VideoProcessingError", retryable |-> TRUE]
\* new Error(message), or whatever a collaborator rejects with
PlainError == [class |-> "Error", retryable |-> FALSE]

\* new ExternalServiceError(service, message, retryable): retryable defaults to true
ExternalServiceError(retryable) == [class |-> "ExternalServiceError", retryable |-> retryable]
\* new FileStorageError(message): retryable defaults to true
FileStorageError == [class |-> "FileStorageError", retryable |-> TRUE]

\* error instanceof AppError
InstanceOfAppError(e) ==
  e.class \in {"ValidationError", "VideoProcessingError", "ExternalServiceError",
               "FileStorageError"}

Resolved(v) == [ok |-> TRUE, value |-> v, error |-> NoError]
Rejected(e) == [ok |-> FALSE, value |-> <<>>, error |-> e]

\* how the searches of VisualContentService.findVisualContent end: they return what
\* they found (Unsplash, Pexels, placeholders; a failing request is replaced by
\* placeholders or by nothing), or something inside the try block throws (building
\* the placeholders does, for a topic encodeURIComponent rejects)
SearchOutcomes == {"ok", "throws"}

\* VisualContentService.findVisualContent(topic, duration), where found is what the
\* searches put into visualContent.  The catch block rethrows a ValidationError and
\* replaces anything else by a new ExternalServiceError with the default flag.
VcsFindVisualContent(topicOk, duration, search, found) ==
  IF ~topicOk THEN Rejected(ValidationError)
  ELSE IF duration < MinDuration \/ duration > MaxDuration THEN Rejected(ValidationError)
  ELSE IF search = "throws" THEN Rejected(ExternalServiceError(TRUE))
  ELSE Resolved(AssignTimingToVisuals(found, duration))

\* VisualContentService.getVisualContentWithCache: a visual whose download fails is
\* kept with its original source, so the list and its timing are unchanged
GetVisualContentWithCache(topicOk, duration, search, found) ==
  VcsFindVisualContent(topicOk, duration, search, found)

\* the production service's findVisualContent without the test for an empty result
FindVisualContent_NoEmptyTest(topicOk, duration, search, found) ==
  IF ~topicOk THEN Rejected(ValidationError)
  ELSE IF duration < MinDuration \/ duration > MaxDuration THEN Rejected(ValidationError)
  ELSE GetVisualContentWithCache(topicOk, duration, search, found)

\* VideoProductionServiceImpl.findVisualContent(topic, duration)
FindVisualContent(topicOk, duration, search, found) ==
  IF ~topicOk THEN Rejected(ValidationError)
  ELSE IF duration < MinDuration \/ duration > MaxDuration THEN Rejected(ValidationError)
  ELSE LET r == GetVisualContentWithCache(topicOk, duration, search, found)
       IN IF ~r.ok THEN r
          ELSE IF Len(r.value) = 0 THEN Rejected(VideoProcessingError)
          ELSE r

\* how videoEditingService.createVideo followed by optimizeForYouTube ends: with the
\* optimized file, with a VideoProcessingError (of createVideo, or of ffmpeg's error
\* event in optimizeForYouTube), or with the error of fs.stat when ffmpeg has ended
\* and the output file cannot be read, which optimizeForYouTube passes on as it is
EditingOutcomes == {"ok", "fail", "nostat"}

\* VideoProductionServiceImpl.createVideo(audio, visuals); editing is the outcome of
\* videoEditingService.createVideo followed by optimizeForYouTube
CreateVideo(audio, vis, editing) ==
  IF audio # "ok" THEN Rejected(ValidationError)
  ELSE IF Len(vis) = 0 THEN Rejected(ValidationError)
  ELSE IF editing = "ok" THEN Resolved(<<"video">>)
  ELSE IF editing = "nostat" THEN Rejected(PlainError)
  ELSE Rejected(VideoProcessingError)

\* VideoProductionServiceImpl.generateThumbnail(topic, style); the style is the
\* caller's or the default one, both with a template.  The thumbnail service replaces
\* every failure of its own work by a new FileStorageError.
GenerateThumbnail(topicOk, service) ==
  IF ~topicOk THEN Rejected(ValidationError)
  ELSE IF service = "ok" THEN Resolved(<<"thumbnail">>)
  ELSE Rejected(FileStorageError)

\* "const x = await this.stage(...)" with a failure of the stage swallowed
AwaitStage_FailureSwallowed(run, stage, res, nextStage) ==
  [run EXCEPT !.pc = IF nextStage = "none" THEN "returned" ELSE nextStage,
              !.done = IF res.ok THEN Append(run.done, stage) ELSE run.done,
              !.invoked = IF nextStage = "none" THEN run.invoked
                          ELSE Append(run.invoked, nextStage)]

\* "const x = await this.stage(...)" inside try { ... } catch (error) { throw error }:
\* when the stage resolves the function goes on and calls the next stage (or returns,
\* after the last one); when it rejects the function rejects with the same error
AwaitStage(run, stage, res, nextStage) ==
  IF res.ok
    THEN [run EXCEPT !.pc = IF nextStage = "none" THEN "returned" ELSE nextStage,
                     !.done = Append(run.done, stage),
                     !.invoked = IF nextStage = "none" THEN run.invoked
                                 ELSE Append(run.invoked, nextStage)]
    ELSE [run EXCEPT !.pc = "thrown", !.error = res.error, !.failedStage = stage]

IdleRun == [pc |-> "idle", invoked |-> <<>>, done |-> <<>>, error |-> NoError,
            failedStage |-> "none", masked |-> {}]

PkgIdle == [run |-> IdleRun, topicOk |-> TRUE, duration |-> MinDuration,
            search |-> "ok", found |-> <<>>, audio |-> "ok", visuals |-> <<>>]

RvcIdle == [run |-> IdleRun, elevenKey |-> TRUE, images |-> 0, status |-> "none"]

\* createCompleteVideoPackage(audio, topic, duration): entry, up to the first await
PkgCall ==
  /\ pkg.run.pc = "idle"
  /\ rvc.run.pc = "idle"
  /\ \E t \in BOOLEAN, d \in PackageDurations, s \in SearchOutcomes, a \in {"ok", "nopath"} :
     \E f \in IF s = "ok" THEN AssetLists ELSE {<<>>} :
       pkg' = [PkgIdle EXCEPT !.topicOk = t, !.duration = d, !.search = s,
                              !.found = f, !.audio = a,
                              !.run = [IdleRun EXCEPT !.pc = "visuals",
                                                      !.invoked = <<"visuals">>]]
  /\ UNCHANGED rvc

\* const visuals = await this.findVisualContent(topic, duration)
PkgVisualsDone ==
  /\ pkg.run.pc = "visuals"
  /\ LET r == FindVisualContent(pkg.topicOk, pkg.duration, pkg.search, pkg.found)
     IN pkg' = [pkg EXCEPT !.run = AwaitStage(pkg.run, "visuals", r, "video"),
                           !.visuals = r.value]
  /\ UNCHANGED rvc

\* const video = await this.createVideo(audio, visuals)
PkgVideoDone ==
  /\ pkg.run.pc = "video"
  /\ \E editing \in EditingOutcomes :
       pkg' = [pkg EXCEPT !.run = AwaitStage(pkg.run, "video",
                                    CreateVideo(pkg.audio, pkg.visuals, editing),
                                    "thumbnail")]
  /\ UNCHANGED rvc

\* const thumbnail = await this.generateThumbnail(topic, thumbnailStyle || defaultStyle)
PkgThumbnailDone ==
  /\ pkg.run.pc = "thumbnail"
  /\ \E service \in {"ok", "fail"} :
       pkg' = [pkg EXCEPT !.run = AwaitStage(pkg.run, "thumbnail",
                                    GenerateThumbnail(pkg.topicOk, service), "none")]
  /\ UNCHANGED rvc

\* RealVideoCreator.createVideo(topic, duration, style): entry, up to the first await
RvcCall ==
  /\ rvc.run.pc = "idle"
  /\ pkg.run.pc = "idle"
  /\ \E key \in BOOLEAN :
       rvc' = [RvcIdle EXCEPT !.elevenKey = key,
                              !.run = [IdleRun EXCEPT !.pc = "script",
                                                      !.invoked = <<"script">>]]
  /\ UNCHANGED pkg

\* const script = await this.generateScript(...): a Gemini error is logged and the
\* fallback script returned, so the stage always resolves
RvcScriptDone ==
  /\ rvc.run.pc = "script"
  /\ \E gemini \in {"ok", "unconfigured", "error"} :
       LET run == AwaitStage(rvc.run, "script", Resolved(<<"script">>), "speech")
       IN rvc' = [rvc EXCEPT !.run = IF gemini = "error"
                                       THEN [run EXCEPT !.masked = run.masked \cup {"script"}]
                                       ELSE run]
  /\ UNCHANGED pkg

\* const audioFile = await this.createAudio(script, videoId): rejects without an
\* ElevenLabs key, or when the request or the file write fails
RvcAudioDone ==
  /\ rvc.run.pc = "speech"
  /\ \E tts \in {"ok", "fail"} :
       LET res == IF rvc.elevenKey /\ tts = "ok" THEN Resolved(<<"audio">>)
                  ELSE Rejected(PlainError)
       IN rvc' = [rvc EXCEPT !.run = AwaitStage(rvc.run, "speech", res, "visuals")]
  /\ UNCHANGED pkg

\* const images = await this.gatherImages(topic): search and download errors are
\* swallowed; only a failing ffmpeg placeholder command rejects
RvcImagesDone ==
  /\ rvc.run.pc = "visuals"
  /\ \E n \in 0..2, swallowed \in BOOLEAN, ffmpeg \in {"ok", "fail"} :
       LET res == IF ffmpeg = "ok" THEN Resolved(<<"images">>) ELSE Rejected(PlainError)
           run == AwaitStage(rvc.run, "visuals", res, "video")
       IN rvc' = [rvc EXCEPT !.images = IF res.ok THEN n ELSE 0,
                             !.run = IF res.ok /\ swallowed
                                       THEN [run EXCEPT !.masked = run.masked \cup {"visuals"}]
                                       ELSE run]
  /\ UNCHANGED pkg

\* const videoFile = await this.assembleVideo(...): the slideshow, then three
\* fallbacks; rejects only when all of them fail
RvcAssembleDone ==
  /\ rvc.run.pc = "video"
  /\ \E ffmpeg \in {"ok", "fallback", "fail"} :
       /\ rvc.images = 0 => ffmpeg # "ok"
       /\ LET res == IF ffmpeg = "fail" THEN Rejected(PlainError) ELSE Resolved(<<"video">>)
              run == AwaitStage(rvc.run, "video", res, "thumbnail")
          IN rvc' = [rvc EXCEPT !.run = IF ffmpeg = "fallback"
                                          THEN [run EXCEPT !.masked = run.masked \cup {"video"}]
                                          ELSE run]
  /\ UNCHANGED pkg

\* const thumbnail = await this.createThumbnail(topic, images[0]): on an ffmpeg error
\* the first image is returned instead; then the result is built and returned
RvcThumbnailDone ==
  /\ rvc.run.pc = "thumbnail"
  /\ \E ffmpeg \in {"ok", "error"} :
       LET run == AwaitStage(rvc.run, "thumbnail", Resolved(<<"thumbnail">>), "none")
       IN rvc' = [rvc EXCEPT !.status = "ready_for_upload",
                             !.run = IF ffmpeg = "error"
                                       THEN [run EXCEPT !.masked = run.masked \cup {"thumbnail"}]
                                       ELSE run]
  /\ UNCHANGED pkg

PInit ==
  /\ pkg = PkgIdle
  /\ rvc = RvcIdle

\* ======================================================================
\* routes: POST /api/videos and POST /api/batch
\* ======================================================================
\* req.body.topic, or an element of req.body.topics
Topics == {"", "bahce"}

\* req.body.duration: below the accepted range, the default, above the range
RequestDurations == {12, DefaultDuration, MaxDuration + 1}

\* req.body.topics: up to two topics, a batch that fills the explored registry, and
\* one topic more than a batch may have
BatchTopicLists ==
  SeqsUpTo(Topics, 2)
    \cup {[i \in 1..n |-> "bahce"] : n \in {MaxSubmitted, MaxBatchTopics + 1}}

\* most requests explored
MaxRequests == 2

\* a request as the handler receives it: what it asks for, the size of the registry
\* at that moment, no response yet (status 0), where the handler stands (pc), how
\* many tasks it has yet to add (left) and the last addTask call it made (call)
Received(route, topics, duration) ==
  [route |-> route,
   emptyTopic |-> topics = <<>> \/ \E i \in 1..Len(topics) : topics[i] = "",
   durationOk |-> duration \in MinDuration..MaxDuration,
   status |-> 0, before |-> Len(calls), left |-> 0, pc |-> "done", call |-> 0]

\* the for loop of POST /api/batch is between two of its addTask calls.  Each
\* "await addTask" resumes in a microtask, so no timer callback and no other request
\* runs until the loop has ended.
LoopRunning == \E n \in 1..Len(req) : req[n].pc = "loop"

\* the tasks the requests in flight have yet to add
RECURSIVE Owed(_)
Owed(n) == IF n = 0 THEN 0 ELSE req[n].left + Owed(n - 1)

\* POST /api/videos: the handler from the request to "await videoModel.create", or
\* to the 400 response
PostVideos ==
  /\ ~LoopRunning
  /\ Len(req) < MaxRequests
  /\ Len(calls) + Owed(Len(req)) < MaxSubmitted
  /\ \E topic \in Topics, duration \in RequestDurations :
       LET r == Received("videos", <<topic>>, duration)
       IN req' = Append(req, IF topic = "" THEN [r EXCEPT !.status = 400]
                             ELSE [r EXCEPT !.pc = "insert", !.left = 1])
  /\ UNCHANGED qvars

\* POST /api/videos after "await videoModel.create" has settled (db): addTask and
\* the 201 response, or the 500 response
PostVideosInserted ==
  /\ ~LoopRunning
  /\ \E n \in 1..Len(req), db \in {"ok", "fail"} :
       /\ req[n].route = "videos"
       /\ req[n].pc = "insert"
       /\ IF db = "fail"
            THEN /\ req' = [req EXCEPT ![n] = [@ EXCEPT !.status = 500, !.pc = "done",
                                                        !.left = 0]]
                 /\ UNCHANGED qvars
            ELSE /\ AddTaskBody(Uuid(Len(calls) + 1), RouteProgress)
                 /\ req' = [req EXCEPT ![n] = [@ EXCEPT !.status = 201, !.pc = "done",
                                                        !.left = 0,
                                                        !.call = Len(calls) + 1]]

\* POST /api/batch: the handler from the request to "await projectModel.create", or
\* to the 400 response
PostBatch ==
  /\ ~LoopRunning
  /\ Len(req) < MaxRequests
  /\ Len(calls) + Owed(Len(req)) < MaxSubmitted
  /\ \E topics \in BatchTopicLists, duration \in RequestDurations :
       /\ Len(topics) <= MaxBatchTopics
            => Len(calls) + Owed(Len(req)) + Len(topics) <= MaxSubmitted
       /\ LET r == Received("batch", topics, duration)
          IN req' = Append(req, IF Len(topics) = 0 THEN [r EXCEPT !.status = 400]
                                ELSE IF Len(topics) > MaxBatchTopics
                                  THEN [r EXCEPT !.status = 400]
                                ELSE [r EXCEPT !.pc = "insert", !.left = Len(topics)])
  /\ UNCHANGED qvars

\* POST /api/batch after "await projectModel.create" has settled (db): the 500
\* response, or the for loop up to the await of its first addTask (and the 201
\* response when there is one topic)
PostBatchInserted ==
  /\ ~LoopRunning
  /\ \E n \in 1..Len(req), db \in {"ok", "fail"} :
       /\ req[n].route = "batch"
       /\ req[n].pc = "insert"
       /\ IF db = "fail"
            THEN /\ req' = [req EXCEPT ![n] = [@ EXCEPT !.status = 500, !.pc = "done",
                                                        !.left = 0]]
                 /\ UNCHANGED qvars
            ELSE /\ AddTaskBody(Uuid(Len(calls) + 1), RouteProgress)
                 /\ req' = [req EXCEPT ![n] =
                              [@ EXCEPT !.left = @ - 1, !.call = Len(calls) + 1,
                                        !.pc = IF req[n].left = 1 THEN "done" ELSE "loop",
                                        !.status = IF req[n].left = 1 THEN 201 ELSE 0]]

\* POST /api/batch: a later iteration of "for (const topic of topics) await
\* addTask(...)", and the 201 response after the last one
BatchAdd ==
  \E n \in 1..Len(req) :
    /\ req[n].pc = "loop"
    /\ AddTaskBody(Uuid(Len(calls) + 1), RouteProgress)
    /\ req' = [req EXCEPT ![n] =
                 [@ EXCEPT !.left = @ - 1, !.call = Len(calls) + 1,
                           !.pc = IF req[n].left = 1 THEN "done" ELSE "loop",
                           !.status = IF req[n].left = 1 THEN 201 ELSE 0]]

SInit == req = <<>>

\* ======================================================================
\* TextToSpeechService.splitTextIntoChunks
\* ======================================================================
\* longest text explored
MaxTextLen == 6

\* the default of the maxChunkSize parameter
DefaultChunkSize == 5000

\* the characters texts are made of: a letter, a space, a sentence end
Chars == {"a", " ", "."}

Texts == SeqsUpTo(Chars, MaxTextLen)

\* chunk sizes small enough for the explored texts to be split
ChunkSizes == {2, 3, 4}

\* the character class [.!?]
IsSentenceEnd(c) == c \in {".", "!", "?"}

RECURSIVE SkipSentenceEnds(_)
\* what is left of t after the run of [.!?] it begins with
SkipSentenceEnds(t) ==
  IF t # <<>> /\ IsSentenceEnd(t[1]) THEN SkipSentenceEnds(Tail(t)) ELSE t

RECURSIVE SplitSentences(_, _)
\* text.split(/[.!?]+/): the pieces between runs of sentence ends, empty ones included;
\* piece is the piece being read
SplitSentences(t, piece) ==
  IF t = <<>> THEN <<piece>>
  ELSE IF IsSentenceEnd(t[1])
    THEN <<piece>> \o SplitSentences(SkipSentenceEnds(t), <<>>)
  ELSE SplitSentences(Tail(t), Append(piece, t[1]))

RECURSIVE SplitWords(_, _)
\* s.split(' '): the pieces between single spaces, empty ones included
SplitWords(t, piece) ==
  IF t = <<>> THEN <<piece>>
  ELSE IF t[1] = " " THEN <<piece>> \o SplitWords(Tail(t), <<>>)
  ELSE SplitWords(Tail(t), Append(piece, t[1]))

RECURSIVE TrimStart(_)
TrimStart(t) == IF t # <<>> /\ t[1] = " " THEN TrimStart(Tail(t)) ELSE t

RECURSIVE TrimEnd(_)
TrimEnd(t) ==
  IF t # <<>> /\ t[Len(t)] = " " THEN TrimEnd(SubSeq(t, 1, Len(t) - 1)) ELSE t

\* s.trim()
Trim(t) == TrimEnd(TrimStart(t))

\* a (a ? ' ' : '') + b
JoinWithSpace(a, b) == a \o (IF a # <<>> THEN <<" ">> ELSE <<>>) \o b

RECURSIVE WordLoop(_, _, _, _)
\* the loop "for (const word of words)" over a sentence longer than maxChunkSize
WordLoop(words, wordChunk, chunks, max) ==
  IF words = <<>> THEN [wordChunk |-> wordChunk, chunks |-> chunks]
  ELSE LET word == words[1]
           push == Len(wordChunk) + Len(word) + 1 > max /\ wordChunk # <<>>
           kept == IF push THEN <<>> ELSE wordChunk
       IN WordLoop(Tail(words), JoinWithSpace(kept, word),
                   IF push THEN Append(chunks, Trim(wordChunk)) ELSE chunks, max)

\* the body of "for (const sentence of sentences)"
SentenceBody(st, sentence, max) ==
  LET trimmedSentence == Trim(sentence)
      sentenceWithPunctuation == Append(trimmedSentence, ".")
      pushed == IF st.currentChunk # <<>>
                  THEN Append(st.chunks, Trim(st.currentChunk)) ELSE st.chunks
  IN IF trimmedSentence = <<>> THEN st
     ELSE IF Len(st.currentChunk) + Len(sentenceWithPunctuation) > max
       THEN IF Len(sentenceWithPunctuation) > max
              THEN LET w == WordLoop(SplitWords(sentenceWithPunctuation, <<>>),
                                     <<>>, pushed, max)
                   IN [currentChunk |-> w.wordChunk, chunks |-> w.chunks]
              ELSE [currentChunk |-> sentenceWithPunctuation, chunks |-> pushed]
     ELSE [currentChunk |-> JoinWithSpace(st.currentChunk, sentenceWithPunctuation),
           chunks |-> st.chunks]

ChunkerIdle == [sentences |-> <<>>, currentChunk |-> <<>>, chunks |-> <<>>]

\* splitTextIntoChunks(text, maxChunkSize): the early return for a short text, or the
\* locals set up for the loop over the sentences
SplitCall ==
  /\ cpc = "idle"
  /\ \E t \in Texts, m \in ChunkSizes :
       /\ text' = t
       /\ maxChunkSize' = m
       /\ IF Len(t) <= m
            THEN /\ cpc' = "done"
                 /\ chunker' = [ChunkerIdle EXCEPT !.chunks = <<t>>]
            ELSE /\ cpc' = "loop"
                 /\ chunker' = [ChunkerIdle EXCEPT !.sentences = SplitSentences(t, <<>>)]

\* one iteration of the loop over the sentences
SplitSentence ==
  /\ cpc = "loop"
  /\ chunker.sentences # <<>>
  /\ LET st == SentenceBody(chunker, Head(chunker.sentences), maxChunkSize)
     IN chunker' = [sentences |-> Tail(chunker.sentences),
                    currentChunk |-> st.currentChunk, chunks |-> st.chunks]
  /\ UNCHANGED <<cpc, text, maxChunkSize>>

\* after the loop: push what is left in currentChunk and return chunks
SplitReturn ==
  /\ cpc = "loop"
  /\ chunker.sentences = <<>>
  /\ cpc' = "done"
  /\ chunker' = [chunker EXCEPT
                   !.chunks = IF chunker.currentChunk # <<>>
                                THEN Append(chunker.chunks, Trim(chunker.currentChunk))
                                ELSE chunker.chunks]
  /\ UNCHANGED <<text, maxChunkSize>>

CInit ==
  /\ cpc = "idle"
  /\ text = <<>>
  /\ maxChunkSize = DefaultChunkSize
  /\ chunker = ChunkerIdle

\* ======================================================================
\* VideoEditingService.createVideo
\* ======================================================================
\* the timelines handed to createVideo: what assignTimingToVisuals returns for a
\* target of 30 seconds
EditTimelines == {AssignTimingToVisuals(vs, MinDuration) : vs \in AssetLists}

EditIdle == [pc |-> "idle", audioOk |-> TRUE, visuals |-> <<>>, next |-> 1,
             preparedVisuals |-> <<>>, error |-> NoError]

\* createVideo(audio, visuals): the two argument tests, up to
\* "await this.ensureDirectories()"
EditCall ==
  /\ edit.pc = "idle"
  /\ \E a \in BOOLEAN, vs \in EditTimelines :
       edit' = IF ~a \/ Len(vs) = 0
                 THEN [EditIdle EXCEPT !.audioOk = a, !.visuals = vs,
                                       !.pc = "thrown", !.error = ValidationError]
                 ELSE [EditIdle EXCEPT !.audioOk = a, !.visuals = vs,
                                       !.pc = "directories"]

\* ensureDirectories settles: when a mkdir fails it throws a FileStorageError, which
\* createVideo replaces by a new VideoProcessingError before any visual is processed;
\* otherwise prepareVisualContent starts
EditDirectoriesDone ==
  /\ edit.pc = "directories"
  /\ \E mkdir \in {"ok", "fail"} :
       edit' = IF mkdir = "ok" THEN [edit EXCEPT !.pc = "prepare"]
               ELSE [edit EXCEPT !.pc = "thrown", !.error = VideoProcessingError]

\* prepareVisualContent: one iteration of "for (const visual of visuals)".  When
\* processImage or processVideo rejects, the visual is skipped; otherwise
\* { ...visual, source: processedPath } is pushed.
EditPrepareVisual ==
  /\ edit.pc = "prepare"
  /\ edit.next <= Len(edit.visuals)
  /\ \E processed \in BOOLEAN :
       edit' = [edit EXCEPT
                 !.next = edit.next + 1,
                 !.preparedVisuals = IF processed
                                       THEN Append(edit.preparedVisuals,
                                                   edit.visuals[edit.next])
                                       ELSE edit.preparedVisuals]

\* prepareVisualContent after the loop: it throws when nothing could be processed
\* (createVideo wraps the error into a new VideoProcessingError), else it returns and
\* createVideo calls createVideoMontage
EditPrepareEnd ==
  /\ edit.pc = "prepare"
  /\ edit.next > Len(edit.visuals)
  /\ edit' = IF Len(edit.preparedVisuals) = 0
               THEN [edit EXCEPT !.pc = "thrown", !.error = VideoProcessingError]
               ELSE [edit EXCEPT !.pc = "montage"]

\* createVideoMontage settles: the video file, or a VideoProcessingError
EditMontageDone ==
  /\ edit.pc = "montage"
  /\ \E ffmpeg \in {"ok", "fail"} :
       edit' = IF ffmpeg = "ok" THEN [edit EXCEPT !.pc = "returned"]
               ELSE [edit EXCEPT !.pc = "thrown", !.error = VideoProcessingError]

EInit == edit = EditIdle

\* ======================================================================
\* AIContentGenerationService.generateScript
\* ======================================================================
\* generateScript: duration < 60 is rejected
MinScriptDuration == 60

\* durations given to generateScript: two rejected ones, two accepted ones
ScriptDurations == {MinDuration, MinScriptDuration, DefaultDuration, MaxDuration + 1}

\* what openai.chat.completions.create settles with: a completion with content, a
\* completion whose content is empty or missing, a rejection
Completions == {"content", "empty", "rejected"}

\* the catch block of generateScript: a ValidationError is rethrown, anything else is
\* replaced by a new ExternalServiceError with the default retryable flag
GenerateScriptCatch(e) ==
  IF e.class = "ValidationError" THEN e ELSE ExternalServiceError(TRUE)

\* what the try block of generateScript throws, or NoError
GenerateScriptRaised(topicOk, duration, completion) ==
  IF ~topicOk THEN ValidationError
  ELSE IF duration < MinScriptDuration \/ duration > MaxDuration THEN ValidationError
  ELSE IF completion = "rejected" THEN PlainError
  ELSE IF completion = "empty" THEN ExternalServiceError(TRUE)
  ELSE NoError

\* generateScript(topic, duration)
GenerateScript(topicOk, duration, completion) ==
  LET e == GenerateScriptRaised(topicOk, duration, completion)
  IN IF e = NoError THEN Resolved(<<"script">>) ELSE Rejected(GenerateScriptCatch(e))

GenIdle == [pc |-> "idle", topicOk |-> TRUE, duration |-> DefaultDuration,
            completion |-> "none", result |-> Resolved(<<>>)]

\* ======================================================================
\* TextToSpeechService.generateSpeech and generateSpeechForLongText
\* ======================================================================
\* largest number of chunks explored
MaxChunks == 3

\* the maxChunkSize generateSpeechForLongText passes to splitTextIntoChunks
LongTextChunkSize == 4000

\* how the ElevenLabs request ends: the HTTP status of the response, 0 for an axios
\* error without a response (timeout, network), -1 for an error that is not axios's
Responses == {200, 204, 401, 422, 429, 500, 0, -1}

\* voiceConfig.provider
Providers == {"elevenlabs", "azure", "google", "other"}

\* the durations estimateAudioDuration gives to the audio of a chunk
ChunkDurations == {2, 3}

\* generateWithElevenLabs(text, voiceConfig): the error it throws, or NoError
GenerateWithElevenLabs(response) ==
  IF response = 200 THEN NoError
  ELSE IF response = 204 \/ response = -1 THEN PlainError
  ELSE IF response = 401 THEN ExternalServiceError(TRUE)
  ELSE IF response = 429 THEN ExternalServiceError(TRUE)
  ELSE IF response = 422 THEN ValidationError
  ELSE ExternalServiceError(TRUE)

\* what the try block of generateSpeech throws, or NoError; saved tells whether
\* saveAudioFile could write the file
GenerateSpeechRaised(textOk, provider, response, saved) ==
  IF ~textOk THEN ValidationError
  ELSE IF provider \in {"azure", "google"} THEN ExternalServiceError(TRUE)
  ELSE IF provider # "elevenlabs" THEN ValidationError
  ELSE IF GenerateWithElevenLabs(response) # NoError THEN GenerateWithElevenLabs(response)
  ELSE IF ~saved THEN FileStorageError
  ELSE NoError

\* the catch block of generateSpeech: a ValidationError is rethrown, anything else is
\* replaced by a new ExternalServiceError with the default retryable flag
GenerateSpeechCatch(e) ==
  IF e.class = "ValidationError" THEN e ELSE ExternalServiceError(TRUE)

\* generateSpeech(text, voiceConfig)
GenerateSpeech(textOk, provider, response, saved) ==
  LET e == GenerateSpeechRaised(textOk, provider, response, saved)
  IN IF e = NoError THEN Resolved(<<"audio">>) ELSE Rejected(GenerateSpeechCatch(e))

NoAudio == [path |-> 0, duration |-> 0]

\* combineAudioFiles(audioFiles) for two or more files: the first file's object with
\* a new id and filename and the summed duration; its path is the first file's
CombineAudioFiles(audioFiles) ==
  IF Len(audioFiles) = 1 THEN audioFiles[1]
  ELSE [audioFiles[1] EXCEPT !.duration = SumDurations(audioFiles)]

SpeechIdle == [pc |-> "idle", n |-> 0, provider |-> "elevenlabs", i |-> 1,
               audioFiles |-> <<>>, attempts |-> <<>>, unlinking |-> {},
               requested |-> FALSE,
               response |-> 200, raised |-> NoError, error |-> NoError, result |-> NoAudio]

\* generateScript(topic, duration) up to "await this.openai.chat.completions.create":
\* an argument that fails its test ends the call through the catch block, without a
\* request; otherwise the request is made and the call waits for it
GenerateScriptCall ==
  /\ gen.pc = "idle"
  /\ \E t \in BOOLEAN, d \in ScriptDurations :
       gen' = [pc |-> IF GenerateScriptRaised(t, d, "none") = NoError THEN "pending"
                      ELSE "done",
               topicOk |-> t, duration |-> d, completion |-> "none",
               result |-> IF GenerateScriptRaised(t, d, "none") = NoError
                            THEN Resolved(<<>>)
                            ELSE GenerateScript(t, d, "none")]
  /\ UNCHANGED <<speech, disk>>

\* the request to OpenAI settles: generateScript parses the completion and returns,
\* or leaves through its catch block
GenerateScriptSettled ==
  /\ gen.pc = "pending"
  /\ \E c \in Completions :
       gen' = [gen EXCEPT !.pc = "done", !.completion = c,
                          !.result = GenerateScript(gen.topicOk, gen.duration, c)]
  /\ UNCHANGED <<speech, disk>>

\* generateSpeechForLongText(text, voiceConfig): n is the number of chunks
\* splitTextIntoChunks(text, 4000) returns (none for a long text without a sentence).
\* With one chunk the text goes to generateSpeech as it is; with more the loop starts.
LongTextCall ==
  /\ speech.pc = "idle"
  /\ \E n \in 0..MaxChunks, p \in Providers :
       speech' = [SpeechIdle EXCEPT !.pc = IF n = 0 THEN "combine" ELSE "chunk",
                                    !.n = n, !.provider = p]
  /\ UNCHANGED <<gen, disk>>

\* "await this.generateSpeech(...)" settles, for the whole text or for chunk i.  A
\* rejection leaves generateSpeechForLongText through its catch block, which rethrows.
\* textOk tells whether the text passes the tests of generateSpeech: the whole text
\* may be blank, and a chunk, like the whole text, may be longer than 50,000
\* characters (a word is never split).  The request to ElevenLabs is made
\* (requested) when the text and the provider pass the tests.
LongTextChunkDone ==
  /\ speech.pc = "chunk"
  /\ \E response \in Responses, saved \in BOOLEAN, d \in ChunkDurations,
        textOk \in BOOLEAN :
       LET r == GenerateSpeech(textOk, speech.provider, response, saved)
           path == Len(speech.attempts) + 1
           file == [path |-> path, duration |-> d]
           tried == [speech EXCEPT !.attempts = Append(speech.attempts, speech.i),
                                   !.requested = textOk /\ speech.provider = "elevenlabs",
                                   !.response = response]
       IN IF ~r.ok
            THEN /\ speech' = [tried EXCEPT
                                !.pc = "thrown", !.error = r.error,
                                !.raised = GenerateSpeechRaised(textOk, speech.provider,
                                                                response, saved)]
                 /\ UNCHANGED disk
            ELSE /\ disk' = disk \cup {[path |-> path, content |-> <<speech.i>>]}
                 /\ speech' = IF speech.n = 1
                                THEN [tried EXCEPT !.pc = "returned", !.result = file]
                                ELSE [tried EXCEPT
                                       !.audioFiles = Append(speech.audioFiles, file),
                                       !.i = speech.i + 1,
                                       !.pc = IF speech.i = speech.n THEN "combine"
                                              ELSE "chunk"]
  /\ UNCHANGED gen

\* after the loop: combineAudioFiles (result holds combinedAudio until the return),
\* then fs.unlink is started for every chunk file (unlinking: the paths whose
\* unlink has not settled)
LongTextCombine ==
  /\ speech.pc = "combine"
  /\ speech' = IF Len(speech.audioFiles) = 0
                 THEN [speech EXCEPT !.pc = "thrown", !.error = ValidationError,
                                     !.raised = ValidationError]
                 ELSE [speech EXCEPT
                        !.pc = "unlink",
                        !.result = CombineAudioFiles(speech.audioFiles),
                        !.unlinking = {speech.audioFiles[a].path :
                                         a \in 1..Len(speech.audioFiles)}]
  /\ UNCHANGED <<gen, disk>>

\* one fs.unlink settles, each in its own turn of the event loop: the file is gone,
\* or the failure is only logged.  When the last one has settled Promise.all
\* resolves and generateSpeechForLongText returns combinedAudio.
LongTextUnlinkDone ==
  /\ speech.pc = "unlink"
  /\ \E path \in speech.unlinking, unlinked \in BOOLEAN :
       /\ disk' = IF unlinked THEN {f \in disk : f.path # path} ELSE disk
       /\ speech' = [speech EXCEPT
                      !.unlinking = speech.unlinking \ {path},
                      !.pc = IF speech.unlinking = {path} THEN "returned" ELSE "unlink"]
  /\ UNCHANGED gen

LInit ==
  /\ gen = GenIdle
  /\ speech = SpeechIdle
  /\ disk = {}

Init == QInit /\ RInit /\ TInit /\ PInit /\ SInit /\ CInit /\ EInit /\ LInit

\* the task queue: addTask, the timer callbacks of processTask, cleanup
Next ==
  \/ AddTask /\ UNCHANGED <<rvars, tvars, pvars, svars, cvars, evars, lvars>>
  \/ ProcessTaskStart /\ UNCHANGED <<rvars, tvars, pvars, svars, cvars, evars, lvars>>
  \/ SimulateStep /\ UNCHANGED <<rvars, tvars, pvars, svars, cvars, evars, lvars>>
  \/ ProcessTaskComplete /\ UNCHANGED <<rvars, tvars, pvars, svars, cvars, evars, lvars>>
  \/ ProcessTaskStartFail /\ UNCHANGED <<rvars, tvars, pvars, svars, cvars, evars, lvars>>
  \/ ProcessTaskFail /\ UNCHANGED <<rvars, tvars, pvars, svars, cvars, evars, lvars>>
  \/ Cleanup /\ UNCHANGED <<rvars, tvars, pvars, svars, cvars, evars, lvars>>

Spec == Init /\ [][Next]_vars

\* one call of retryOperation
NextRetry ==
  \/ RetryCall /\ UNCHANGED <<qvars, tvars, pvars, svars, cvars, evars, lvars>>
  \/ RetryInvoke /\ UNCHANGED <<qvars, tvars, pvars, svars, cvars, evars, lvars>>
  \/ RetrySleep /\ UNCHANGED <<qvars, tvars, pvars, svars, cvars, evars, lvars>>

SpecRetry == Init /\ [][NextRetry]_vars

\* one call of assignTimingToVisuals
NextTimeline ==
  \/ AssignCall /\ UNCHANGED <<qvars, rvars, pvars, svars, cvars, evars, lvars>>
  \/ AssignIterate /\ UNCHANGED <<qvars, rvars, pvars, svars, cvars, evars, lvars>>
  \/ AssignReturn /\ UNCHANGED <<qvars, rvars, pvars, svars, cvars, evars, lvars>>

SpecTimeline == Init /\ [][NextTimeline]_vars

\* one pipeline run: createCompleteVideoPackage or RealVideoCreator.createVideo
NextPipeline ==
  \/ PkgCall /\ UNCHANGED <<qvars, rvars, tvars, svars, cvars, evars, lvars>>
  \/ PkgVisualsDone /\ UNCHANGED <<qvars, rvars, tvars, svars, cvars, evars, lvars>>
  \/ PkgVideoDone /\ UNCHANGED <<qvars, rvars, tvars, svars, cvars, evars, lvars>>
  \/ PkgThumbnailDone /\ UNCHANGED <<qvars, rvars, tvars, svars, cvars, evars, lvars>>
  \/ RvcCall /\ UNCHANGED <<qvars, rvars, tvars, svars, cvars, evars, lvars>>
  \/ RvcScriptDone /\ UNCHANGED <<qvars, rvars, tvars, svars, cvars, evars, lvars>>
  \/ RvcAudioDone /\ UNCHANGED <<qvars, rvars, tvars, svars, cvars, evars, lvars>>
  \/ RvcImagesDone /\ UNCHANGED <<qvars, rvars, tvars, svars, cvars, evars, lvars>>
  \/ RvcAssembleDone /\ UNCHANGED <<qvars, rvars, tvars, svars, cvars, evars, lvars>>
  \/ RvcThumbnailDone /\ UNCHANGED <<qvars, rvars, tvars, svars, cvars, evars, lvars>>

SpecPipeline == Init /\ [][NextPipeline]_vars

\* tasks submitted through the routes, and their processing
NextSubmit ==
  \/ PostVideos /\ UNCHANGED <<rvars, tvars, pvars, cvars, evars, lvars>>
  \/ PostVideosInserted /\ UNCHANGED <<rvars, tvars, pvars, cvars, evars, lvars>>
  \/ PostBatch /\ UNCHANGED <<rvars, tvars, pvars, cvars, evars, lvars>>
  \/ PostBatchInserted /\ UNCHANGED <<rvars, tvars, pvars, cvars, evars, lvars>>
  \/ BatchAdd /\ UNCHANGED <<rvars, tvars, pvars, cvars, evars, lvars>>
  \/ ~LoopRunning /\ ProcessTaskStart /\ UNCHANGED <<rvars, tvars, pvars, svars, cvars, evars, lvars>>
  \/ ~LoopRunning /\ SimulateStep /\ UNCHANGED <<rvars, tvars, pvars, svars, cvars, evars, lvars>>
  \/ ~LoopRunning /\ ProcessTaskComplete /\ UNCHANGED <<rvars, tvars, pvars, svars, cvars, evars, lvars>>

SpecSubmit == Init /\ [][NextSubmit]_vars

\* the task queue without cleanup()
NextQueue ==
  \/ AddTask /\ UNCHANGED <<rvars, tvars, pvars, svars, cvars, evars, lvars>>
  \/ ProcessTaskStart /\ UNCHANGED <<rvars, tvars, pvars, svars, cvars, evars, lvars>>
  \/ SimulateStep /\ UNCHANGED <<rvars, tvars, pvars, svars, cvars, evars, lvars>>
  \/ ProcessTaskComplete /\ UNCHANGED <<rvars, tvars, pvars, svars, cvars, evars, lvars>>
  \/ ProcessTaskStartFail /\ UNCHANGED <<rvars, tvars, pvars, svars, cvars, evars, lvars>>
  \/ ProcessTaskFail /\ UNCHANGED <<rvars, tvars, pvars, svars, cvars, evars, lvars>>

\* a timer callback that is due runs: the oldest 1000 ms timer, and the oldest
\* 2000 ms timer (whose callback resumes simulateVideoProcessing, normally or with
\* an exception)
TimerFires ==
  /\ ProcessTaskStart \/ ProcessTaskStartFail
  /\ UNCHANGED <<rvars, tvars, pvars, svars, cvars, evars, lvars>>

StepTimerFires ==
  /\ SimulateStep \/ ProcessTaskComplete \/ ProcessTaskFail
  /\ UNCHANGED <<rvars, tvars, pvars, svars, cvars, evars, lvars>>

\* the event loop runs every timer that has expired; cleanup() is never called
SpecQueueLive ==
  /\ Init
  /\ [][NextQueue]_vars
  /\ WF_vars(TimerFires)
  /\ WF_vars(StepTimerFires)

\* one call of splitTextIntoChunks
NextChunks ==
  \/ SplitCall /\ UNCHANGED <<qvars, rvars, tvars, pvars, svars, evars, lvars>>
  \/ SplitSentence /\ UNCHANGED <<qvars, rvars, tvars, pvars, svars, evars, lvars>>
  \/ SplitReturn /\ UNCHANGED <<qvars, rvars, tvars, pvars, svars, evars, lvars>>

SpecChunks == Init /\ [][NextChunks]_vars

\* one call of VideoEditingService.createVideo
NextEdit ==
  \/ EditCall /\ UNCHANGED <<qvars, rvars, tvars, pvars, svars, cvars, lvars>>
  \/ EditDirectoriesDone /\ UNCHANGED <<qvars, rvars, tvars, pvars, svars, cvars, lvars>>
  \/ EditPrepareVisual /\ UNCHANGED <<qvars, rvars, tvars, pvars, svars, cvars, lvars>>
  \/ EditPrepareEnd /\ UNCHANGED <<qvars, rvars, tvars, pvars, svars, cvars, lvars>>
  \/ EditMontageDone /\ UNCHANGED <<qvars, rvars, tvars, pvars, svars, cvars, lvars>>

SpecEdit == Init /\ [][NextEdit]_vars

\* script generation and speech synthesis
NextContent ==
  \/ GenerateScriptCall /\ UNCHANGED <<qvars, rvars, tvars, pvars, svars, cvars, evars>>
  \/ GenerateScriptSettled /\ UNCHANGED <<qvars, rvars, tvars, pvars, svars, cvars, evars>>
  \/ LongTextCall /\ UNCHANGED <<qvars, rvars, tvars, pvars, svars, cvars, evars>>
  \/ LongTextChunkDone /\ UNCHANGED <<qvars, rvars, tvars, pvars, svars, cvars, evars>>
  \/ LongTextCombine /\ UNCHANGED <<qvars, rvars, tvars, pvars, svars, cvars, evars>>
  \/ LongTextUnlinkDone /\ UNCHANGED <<qvars, rvars, tvars, pvars, svars, cvars, evars>>

SpecContent == Init /\ [][NextContent]_vars

\* ======================================================================
\* properties
\* ======================================================================
\* a processTask execution is in progress from its start until it has marked the
\* task completed or failed
InProgress(k) == calls[k].pc = "step"

\* C1: at most one execution of processTask is in progress for a given task id
C1_AtMostOneExecutionPerTask ==
  \A j, k \in 1..Len(calls) :
    (InProgress(j) /\ InProgress(k) /\ calls[j].id = calls[k].id) => j = k

\* C2: the status recorded for a task id only moves forward: it never returns to
\* pending once it has left it, and never changes once completed or failed
C2_StatusOnlyMovesForward ==
  [][\A id \in AllIds :
       (tasks[id] # 0 /\ tasks'[id] # 0) =>
         /\ GetTaskStatus(id) # "pending" => GetTaskStatus(id)' # "pending"
         /\ GetTaskStatus(id) \in {"completed", "failed"}
              => GetTaskStatus(id)' = GetTaskStatus(id)]_vars

\* C3: a task whose script-generation step fails with a retryable error ends in
\* failed only after that step has been attempted maxRetries times
C3_ScriptStepAttemptedMaxRetriesTimes ==
  \A k \in 1..Len(calls) :
    (calls[k].pc = "failed" /\ StepName(calls[k].failedStep) = "script")
      => calls[k].attempts = QueueMaxRetries

\* C4: after a non-retryable failure the operation is not invoked again, no backoff
\* wait follows it, and the caller receives that same error
C4_FatalIsNotRetried ==
  \A n \in 1..Len(outcomes) :
    IsFatal(outcomes[n]) =>
      /\ n = Len(outcomes)
      /\ rpc = "thrown"
      /\ thrown = outcomes[n]
      /\ Len(sleeps) = n - 1

\* a first-attempt Fatal failure has been thrown to the caller
C4_Witness ==
  /\ rpc = "thrown"
  /\ Len(outcomes) = 1
  /\ IsFatal(outcomes[1])
  /\ sleeps = <<>>

\* C5: for a non-empty asset list and a target of 30 to 1800 seconds the returned
\* slices sum to the target, within 1 second (stated for assets of positive duration)
C5_SlicesSumToTarget ==
  (/\ tpc = "done"
   /\ Len(visuals) > 0
   /\ \A a \in 1..Len(visuals) : visuals[a] > 0
   /\ totalDuration \in MinDuration..MaxDuration)
    => /\ SumDurations(alloc.timedVisuals) >= totalDuration - 1
       /\ SumDurations(alloc.timedVisuals) <= totalDuration + 1

\* C6: the slices are ordered and gap-free: the first starts at 0, every slice has a
\* positive duration and each later slice starts where the previous one ends
C6_SlicesContiguous ==
  LET s == alloc.timedVisuals
  IN /\ Len(s) > 0 => s[1].startTime = 0
     /\ \A i \in 1..Len(s) : s[i].duration > 0
     /\ \A i \in 1..(Len(s) - 1) : s[i + 1].startTime = s[i].startTime + s[i].duration

\* a returned timeline of at least three slices whose last slice was truncated
C6_Witness ==
  LET s == alloc.timedVisuals
  IN /\ tpc = "done"
     /\ Len(s) >= 3
     /\ s[Len(s)].duration < visuals[s[Len(s)].asset]

\* C7: when three cycles through the asset list do not cover the target, the
\* allocation does not return a timeline (one shorter than the target); stated for
\* assets of positive duration
C7_ShortTimelineNotReturned ==
  (/\ tpc = "done"
   /\ Len(visuals) > 0
   /\ \A a \in 1..Len(visuals) : visuals[a] > 0
   /\ MaxCycles * SumSeq(visuals) < totalDuration)
    => SumDurations(alloc.timedVisuals) >= totalDuration

\* C8: the loop visits at most 3 x (number of assets) entries, and no asset is
\* placed in more than 3 slices
C8_VisitsBounded ==
  /\ alloc.visualIndex <= MaxCycles * Len(visuals)
  /\ \A a \in 1..Len(visuals) :
       Cardinality({i \in 1..Len(alloc.timedVisuals) : alloc.timedVisuals[i].asset = a})
         <= MaxCycles

\* the loop has ended after the full 3 cycles over a list that has a 0-duration asset
C8_Witness ==
  /\ tpc = "done"
  /\ Len(visuals) > 0
  /\ \E a \in 1..Len(visuals) : visuals[a] = 0
  /\ alloc.visualIndex = MaxCycles * Len(visuals)
  /\ alloc.currentTime < totalDuration

IsPrefix(p, q) == Len(p) <= Len(q) /\ \A i \in 1..Len(p) : p[i] = q[i]

\* the stages invoked so far are an initial part of the order, every invoked stage
\* but the last has returned successfully, and a run that returned ran them all
StageOrder(run, order) ==
  /\ IsPrefix(run.invoked, order)
  /\ IsPrefix(run.done, run.invoked)
  /\ Len(run.invoked) <= Len(run.done) + 1
  /\ run.pc = "returned" => run.done = order

\* C9: within one run the stages execute strictly in order, each one starting only
\* after the previous one has returned successfully, none skipped, none overlapping
C9_StagesInOrder ==
  /\ StageOrder(pkg.run, PackageStages)
  /\ StageOrder(rvc.run, CreatorStages)

\* a run of RealVideoCreator.createVideo has gone through all five stages
C9_Witness ==
  /\ rvc.run.pc = "returned"
  /\ rvc.run.done = CreatorStages

\* C10: when the visual search yields zero assets the run fails at the visuals stage
\* and neither createVideo nor generateThumbnail is invoked
C10_NoAssetsNoRender ==
  (pkg.search = "ok" /\ pkg.found = <<>> /\ pkg.run.pc \notin {"idle", "visuals"})
    => /\ pkg.run.pc = "thrown"
       /\ pkg.run.failedStage = "visuals"
       /\ pkg.run.invoked = <<"visuals">>

\* a run with a valid topic and duration whose search found nothing has failed with
\* the "No visual content found" error
C10_Witness ==
  /\ pkg.search = "ok"
  /\ pkg.found = <<>>
  /\ pkg.topicOk
  /\ pkg.duration \in MinDuration..MaxDuration
  /\ pkg.run.pc = "thrown"
  /\ pkg.run.error = VideoProcessingError

\* C11: a failure of script generation, speech synthesis, image gathering or video
\* assembly is never masked: a run in which one of them failed does not return a
\* result (marked ready_for_upload), it fails with that stage's error
C11_StageFailureNotMasked ==
  (rvc.run.pc = "returned" \/ rvc.status = "ready_for_upload")
    => rvc.run.masked \cap {"script", "speech", "visuals", "video"} = {}

\* C12: right after a task has been created, before any timer callback has run,
\* reading it back gives status pending and progress 0
C12_CreatedTaskIsPending ==
  [][Len(calls') = Len(calls) + 1 =>
       LET id == calls'[Len(calls')].id
       IN /\ tasks'[id] # 0
          /\ heap'[tasks'[id]].status = "pending"
          /\ heap'[tasks'[id]].progress = 0]_vars

\* POST /api/videos with a valid topic and duration has answered 201 and the task it
\* created is registered, its timer not yet expired
C12_Witness ==
  \E n \in 1..Len(req) :
    /\ req[n].route = "videos"
    /\ req[n].status = 201
    /\ ~req[n].emptyTopic
    /\ req[n].durationOk
    /\ req[n].call # 0
    /\ calls[req[n].call].pc = "timer"
    /\ GetTaskStatus(calls[req[n].call].id) = "pending"

\* C13: a submission with an empty topic or a duration outside 30..1800 is answered
\* with a validation error (400) and adds nothing to the registry
C13_InvalidSubmissionRejected ==
  \A n \in 1..Len(req) :
    (req[n].status # 0 /\ (req[n].emptyTopic \/ ~req[n].durationOk))
      => /\ req[n].status = 400
         /\ req[n].call = 0

\* C14: at most config.queue.concurrency tasks are in the processing state at once
C14_AtMostConcurrencyProcessing ==
  Cardinality({id \in AllIds : GetTaskStatus(id) = "processing"}) <= QueueConcurrency

\* the processTask execution of call k has set a task to processing
HasStarted(k) == calls[k].task # 0

\* C15: tasks start processing in the order of their creation: when the execution
\* scheduled by a later addTask has started, that of every earlier addTask has
\* started (or has found its task removed from the registry)
C15_StartInCreationOrder ==
  \A j, k \in 1..Len(calls) :
    (j < k /\ HasStarted(k)) => (HasStarted(j) \/ calls[j].pc = "notfound")

\* three tasks were added; the first two have started, the third is still pending
C15_Witness ==
  /\ Len(calls) = 3
  /\ HasStarted(1)
  /\ HasStarted(2)
  /\ calls[3].pc = "timer"

C17_NoAssetsErrorIsFatal ==
  (/\ pkg.search = "ok"
   /\ pkg.found = <<>>
   /\ pkg.topicOk
   /\ pkg.duration \in MinDuration..MaxDuration
   /\ pkg.run.pc = "thrown"
   /\ pkg.run.failedStage = "visuals")
    => /\ InstanceOfAppError(pkg.run.error)
       /\ ~pkg.run.error.retryable

\* C18: ten images of 5 seconds and a target of 120 seconds give 24 slices that
\* total 120 seconds
C18_TenImagesGive24Slices ==
  (tpc = "done" /\ visuals = TenImages /\ totalDuration = 4 * MinDuration)
    => /\ Len(alloc.timedVisuals) = 24
       /\ SumDurations(alloc.timedVisuals) = 120
       /\ alloc.timedVisuals = AssignTimingToVisuals(visuals, totalDuration)

\* the allocation for ten images and 120 seconds has returned, its last slice being
\* the fourth image in its third cycle
C18_Witness ==
  /\ tpc = "done"
  /\ visuals = TenImages
  /\ totalDuration = 120
  /\ alloc.visualIndex = 24
  /\ alloc.timedVisuals[Len(alloc.timedVisuals)].asset = 4

\* C19: when every invocation fails with a retryable error, the operation is invoked
\* exactly maxRetries times, a backoff wait of delay * 2^(n-1) follows the n-th
\* attempt for n < maxRetries only, and the last error is thrown
C19_RetriedMaxRetriesTimes ==
  (/\ rpc = "thrown"
   /\ maxRetries >= 1
   /\ \A n \in 1..Len(outcomes) : outcomes[n] # Ok /\ ~IsFatal(outcomes[n]))
    => /\ Len(outcomes) = maxRetries
       /\ Len(sleeps) = maxRetries - 1
       /\ \A n \in 1..Len(sleeps) : sleeps[n] = delay * Pow2(n - 1)
       /\ thrown = outcomes[Len(outcomes)]

\* three attempts have failed with a retryable AppError and the third was thrown
C19_Witness ==
  /\ rpc = "thrown"
  /\ maxRetries = 3
  /\ Len(outcomes) = 3
  /\ \A n \in 1..3 : outcomes[n].kind = "AppError" /\ outcomes[n].retryable
  /\ sleeps = <<delay, 2 * delay>>
  /\ thrown = outcomes[3]

\* C26: while a task is in stage i of its NSteps stages (counted from 0), the
\* progress recorded for it is (i / NSteps) * 100
C26_ProgressFollowsStage ==
  \A k \in 1..Len(calls) :
    (calls[k].pc = "step" /\ tasks[calls[k].id] = calls[k].task)
      => heap[calls[k].task].progress * NSteps = calls[k].i * 100

\* the status of the task the k-th addTask call registered is completed or failed
Settled(k) ==
  /\ k <= Len(calls)
  /\ GetTaskStatus(calls[k].id) \in {"completed", "failed"}

C28_NoReappearanceAfterCleanup ==
  [][\A id \in AllIds :
       (tasks[id] = 0 /\ tasks'[id] # 0) => Len(calls') = Len(calls) + 1]_vars

\* C29: the four counts of getQueueStats sum to the number of registered tasks
C29_StatsSumToRegistrySize ==
  GetQueueStats.waiting + GetQueueStats.active + GetQueueStats.completed
    + GetQueueStats.failed = Cardinality({id \in AllIds : tasks[id] # 0})

\* two tasks are registered, one processing and one failed
C29_Witness ==
  /\ GetQueueStats.active = 1
  /\ GetQueueStats.failed = 1
  /\ Cardinality({id \in AllIds : tasks[id] # 0}) = 2

\* C30: retryOperation invokes the operation at least once, and what it throws is an
\* error the operation raised
C30_InvokedAtLeastOnce ==
  rpc \in {"returned", "thrown"}
    => /\ Len(outcomes) >= 1
       /\ rpc = "thrown" => \E n \in 1..Len(outcomes) : thrown = outcomes[n]

\* the slices abut: the first starts at 0, each later one where the previous one ends
Abutting(slices) ==
  /\ Len(slices) > 0 => slices[1].startTime = 0
  /\ \A i \in 1..(Len(slices) - 1) :
       slices[i + 1].startTime = slices[i].startTime + slices[i].duration

\* C21: when prepareVisualContent has dropped a slice, the slices it returns abut
C21_RemainingSlicesAbut ==
  (/\ edit.pc \in {"montage", "returned"}
   /\ Len(edit.preparedVisuals) < Len(edit.visuals))
    => Abutting(edit.preparedVisuals)

\* C22: for n >= 2 chunks the chunks are synthesized one at a time in order, and the
\* returned audio reference names an existing file that holds the audio of all n
\* chunks in that order, with the summed duration
C22_LongTextAudioIsConcatenation ==
  (speech.pc = "returned" /\ speech.n >= 2)
    => /\ speech.attempts = [c \in 1..speech.n |-> c]
       /\ speech.result.duration = SumDurations(speech.audioFiles)
       /\ \E f \in disk :
            /\ f.path = speech.result.path
            /\ f.content = [c \in 1..speech.n |-> c]

\* the error generateSpeech surfaced is an AppError whose retryable flag is set
IsRetryable(e) == InstanceOfAppError(e) /\ e.retryable

\* C23: when chunked synthesis fails on a retryable error of one chunk (a rate-limit
\* response), that chunk has been attempted again before (at least twice in all),
\* and every chunk before it once
C23_FailedChunkWasRetried ==
  (/\ speech.pc = "thrown"
   /\ speech.n >= 2
   /\ speech.requested
   /\ speech.response = 429
   /\ IsRetryable(speech.error))
    => /\ Cardinality({a \in 1..Len(speech.attempts) :
                          speech.attempts[a] = speech.i}) >= 2
       /\ \A c \in 1..(speech.i - 1) :
            Cardinality({a \in 1..Len(speech.attempts) : speech.attempts[a] = c}) = 1

\* C24: when the collaborator returns empty output, generateScript fails with an
\* AppError whose retryable flag is false
C24_EmptyScriptIsFatal ==
  (/\ gen.pc = "done"
   /\ gen.completion = "empty"
   /\ GenerateScriptRaised(gen.topicOk, gen.duration, "content") = NoError)
    => /\ ~gen.result.ok
       /\ InstanceOfAppError(gen.result.error)
       /\ ~gen.result.error.retryable

\* C25: a 401 of the speech collaborator surfaces from generateSpeech as an error
\* whose retryable flag is false, a 429 as one whose flag is true, and the flag the
\* caller sees is the one set where the collaborator call failed
C25_AuthFailureFatalRateLimitRetryable ==
  (speech.pc = "thrown" /\ speech.requested /\ speech.response \in {401, 429})
    => /\ InstanceOfAppError(speech.error)
       /\ speech.error.retryable = (speech.response = 429)
       /\ speech.error.retryable = speech.raised.retryable

\* the words of the text: what stands between its spaces
WordsOf(t) == SplitWords(t, <<>>)

\* C20: when no word of the text is longer than maxChunkSize, no returned chunk is
\* longer than maxChunkSize (stated for words that are shorter than maxChunkSize, so
\* that the "." the function puts after every sentence makes no word too long)
C20_ChunksWithinMaxSize ==
  (/\ cpc = "done"
   /\ \A i \in 1..Len(WordsOf(text)) : Len(WordsOf(text)[i]) < maxChunkSize)
    => \A i \in 1..Len(chunker.chunks) : Len(chunker.chunks[i]) <= maxChunkSize

====
